---- MODULE Spec2Model ----
(***************************************************************************)
(* Model of the honey quality pipeline:                                    *)
(*   - IndustrialETLProcessor (src/src/industrial_etl.py): configuration,  *)
(*     validation, scoring, categorisation, load and run_etl_pipeline;     *)
(*   - UnifiedPowerBIGenerator (src/src/unified_powerbi_generator.py):     *)
(*     scoring, categorisation and compliance;                             *)
(*   - MonitoringSystem (src/src/monitoring_system.py): alert checks;      *)
(*   - IndustrialHoneyPipeline (src/src/industrial_pipeline.py): run_demo. *)
(*                                                                         *)
(* Measurements are floats in the source.  The model counts them in tenths *)
(* (moisture 17.5 is 175, pH 3.5 is 35, CPU 80.0 % is 800): every bound    *)
(* and tier edge of the source is a multiple of 0.5, which binary floating *)
(* point represents exactly, so the comparisons of the source agree with   *)
(* integer comparisons on tenths.  Scores are whole numbers in the source  *)
(* (100 minus multiples of 5) and are kept unscaled.                       *)
(***************************************************************************)
EXTENDS Integers, Sequences, FiniteSets, TLC

VARIABLES
    \* ---- IndustrialETLProcessor ----
    config_file,    \* what was at config_path when the processor was built
    rules,          \* self.config.business_rules
    db_engine,      \* self.db_engine: "engine" or "None"
    redis_client,   \* self.redis_client: "client" or "None"
    emptyApply,     \* what DataFrame.apply(axis=1) gives on an empty frame in
                    \* the installed pandas: "series" or "frame"
    pc,             \* position of the one run of run_etl_pipeline
    clock,          \* datetime.now()
    start_time,     \* start_time of the run
    input,          \* rows of the file at source_path, as extraction read them
    data,           \* the DataFrame returned by extract_data
    accepted,       \* rows that left _apply_business_rules
    scored,         \* rows handed to _calculate_quality_score
    transformed,    \* the DataFrame returned by transform_data
    load_success,   \* value returned by load_data
    loadError,      \* the error load_data logged ("" if none)
    exc,            \* the exception caught by run_etl_pipeline: the stage
                    \* that raised it and its message
    table,          \* rows of the target table in the database
    cache,          \* the Redis metadata entry of the target table
    stages,         \* the stage methods invoked so far, in order
    result,         \* the dict returned by run_etl_pipeline
    \* ---- scoring and classification called on one row or one score ----
    call,           \* the last such call: the method, its argument, its return
    \* ---- MonitoringSystem ----
    perfEnabled,    \* self.config.collect_performance_metrics
    qualEnabled,    \* self.config.collect_data_quality_metrics
    psutilAvail,    \* PSUTIL_AVAILABLE
    alert_thresholds, \* self.config.alert_thresholds
    alerts,         \* self.alerts
    lastCheck,      \* the last call of check_alerts: what it observed and returned
    checks,         \* number of check_alerts calls made
    \* ---- a second run_etl_pipeline call on the same processor ----
    otherRun,       \* the local variables of that call (its position, frames,
                    \* exception and result)
    \* ---- IndustrialHoneyPipeline.run_demo ----
    demoPc,         \* position of run_demo
    pipeline_results, \* self.pipeline_results
    demoLog,        \* the steps run_demo has gone through, in order
    \* ---- MonitoringSystem: start_monitoring, cleanup, monitor threads ----
    enabled,        \* self.config.enabled
    prometheusAvail, \* PROMETHEUS_AVAILABLE
    httpServer,     \* the metrics server of this process listens on metrics_port
    monitoring_active, \* self.monitoring_active
    mainPc,         \* position of the thread that calls start_monitoring and cleanup
    threads,        \* the monitor threads created so far, each with its position
                    \* in _run_system_monitor; self.system_monitor_thread is the last
    starts          \* number of start_monitoring calls made

etlVars == <<config_file, rules, db_engine, redis_client, emptyApply, pc, clock, start_time,
             input, data, accepted, scored, transformed, load_success,
             loadError, exc, table, cache, stages, result>>
scoreVars == <<call>>
monVars == <<perfEnabled, qualEnabled, psutilAvail, alert_thresholds, alerts,
            lastCheck, checks>>
concVars == <<otherRun>>
demoVars == <<demoPc, pipeline_results, demoLog>>
threadVars == <<enabled, prometheusAvail, httpServer, monitoring_active, mainPc,
               threads, starts>>
vars == <<etlVars, scoreVars, monVars, concVars, demoVars, threadVars>>

----------------------------------------------------------------------------
(* Bounds of the model *)

\* longest input file, in rows
MaxRecords == 2
\* longest time the read of the source takes, in clock ticks (the
\* transformation and the load take one tick each)
MaxTick == 1
\* number of check_alerts cycles followed
MaxChecks == 2
\* number of start_monitoring calls followed
MaxStarts == 3

----------------------------------------------------------------------------
(* Rows and rule sets *)

Params == {"moisture", "ph", "diastase_activity", "h_m_f"}

Restrict(f, S) == [x \in S |-> f[x]]

\* A row is a function from the scorable fields that hold a number to that
\* number, in tenths; a field outside its domain is NaN (an empty cell).
IdealRow == [moisture |-> 175, ph |-> 50, diastase_activity |-> 100, h_m_f |-> 300]

IsNa(row, p) == p \notin DOMAIN row

\* The built-in business rules, in tenths.
DefaultRules ==
    [moisture |-> [min |-> 150, max |-> 200],
     ph |-> [min |-> 35, max |-> 65],
     diastase_activity |-> [min |-> 80],
     h_m_f |-> [max |-> 400]]

\* business_rules is read from the "quality" section of the configuration
\* file, which may name any subset of the four parameters.
RuleSets == {Restrict(DefaultRules, S) : S \in SUBSET Params}

\* Rows of the input files the pipeline runs are drawn from: the ideal row,
\* rows on and beyond one bound, and a row with an empty cell.
PipelineRows ==
    {IdealRow,
     [IdealRow EXCEPT !.moisture = 150],
     [IdealRow EXCEPT !.moisture = 205],
     [IdealRow EXCEPT !.ph = 29],
     [IdealRow EXCEPT !.diastase_activity = 70],
     [IdealRow EXCEPT !.h_m_f = 450],
     Restrict(IdealRow, Params \ {"ph"})}

\* Rows the scoring methods are called on directly: a grid that reaches every penalty tier of every parameter, in
\* both scoring functions, and every edge of a tier
ProbeValues ==
    [moisture |-> {130, 140, 145, 150, 155, 165, 175, 185, 195, 200, 205, 210, 220},
     ph |-> {25, 30, 35, 40, 45, 50, 55, 60, 65, 70, 75},
     diastase_activity |-> {50, 60, 70, 80, 100},
     h_m_f |-> {300, 400, 450, 500, 510}]

ProbeRows ==
    [moisture : ProbeValues.moisture,
     ph : ProbeValues.ph,
     diastase_activity : ProbeValues.diastase_activity,
     h_m_f : ProbeValues.h_m_f]

\* the scores the classification methods are called on
Scores == 0..100

Batches == UNION {[1..n -> PipelineRows] : n \in 0..MaxRecords}

\* What is found at source_path: a file of an unsupported format, a file
\* that cannot be read, a file of zero bytes (read_csv raises EmptyDataError),
\* or a table with its columns and rows.
Sources ==
    {[kind |-> "unsupported", columns |-> {}, rows |-> <<>>],
     [kind |-> "unreadable", columns |-> {}, rows |-> <<>>],
     [kind |-> "empty", columns |-> {}, rows |-> <<>>]}
    \cup {[kind |-> "table", columns |-> Params, rows |-> b] : b \in Batches}
    \cup {[kind |-> "table", columns |-> Params \ {c}, rows |-> <<>>] : c \in Params}
    \cup {[kind |-> "table", columns |-> Params \ {c},
           rows |-> <<Restrict(IdealRow, Params \ {c})>>] : c \in Params}

----------------------------------------------------------------------------
(* IndustrialETLProcessor: validation, scoring, categorisation *)

\* pandas comparison of a column with a bound: NaN compares False
Ge(row, p, bound) == ~IsNa(row, p) /\ row[p] >= bound
Le(row, p, bound) == ~IsNa(row, p) /\ row[p] <= bound

DropNa(rows) ==
    LET Complete(row) == \A p \in Params : ~IsNa(row, p)
    IN SelectSeq(rows, Complete)

\* variant of ApplyBusinessRules that leaves out the minimum-only filter
ApplyBusinessRulesNoDiastase(rs, rows) ==
    LET KeepMoisture(row) ==
            Ge(row, "moisture", rs["moisture"]["min"])
            /\ Le(row, "moisture", rs["moisture"]["max"])
        KeepPh(row) ==
            Ge(row, "ph", rs["ph"]["min"]) /\ Le(row, "ph", rs["ph"]["max"])
        KeepHmf(row) == Le(row, "h_m_f", rs["h_m_f"]["max"])
        d1 == IF "moisture" \in DOMAIN rs THEN SelectSeq(rows, KeepMoisture) ELSE rows
        d2 == IF "ph" \in DOMAIN rs THEN SelectSeq(d1, KeepPh) ELSE d1
        d4 == IF "h_m_f" \in DOMAIN rs THEN SelectSeq(d2, KeepHmf) ELSE d2
    IN d4

ApplyBusinessRules(rs, rows) ==
    LET KeepMoisture(row) ==
            Ge(row, "moisture", rs["moisture"]["min"])
            /\ Le(row, "moisture", rs["moisture"]["max"])
        KeepPh(row) ==
            Ge(row, "ph", rs["ph"]["min"]) /\ Le(row, "ph", rs["ph"]["max"])
        KeepDiastase(row) == Ge(row, "diastase_activity", rs["diastase_activity"]["min"])
        KeepHmf(row) == Le(row, "h_m_f", rs["h_m_f"]["max"])
        d1 == IF "moisture" \in DOMAIN rs THEN SelectSeq(rows, KeepMoisture) ELSE rows
        d2 == IF "ph" \in DOMAIN rs THEN SelectSeq(d1, KeepPh) ELSE d1
        d3 == IF "diastase_activity" \in DOMAIN rs THEN SelectSeq(d2, KeepDiastase) ELSE d2
        d4 == IF "h_m_f" \in DOMAIN rs THEN SelectSeq(d3, KeepHmf) ELSE d3
    IN d4

Max(a, b) == IF a >= b THEN a ELSE b
Abs(x) == IF x >= 0 THEN x ELSE -x

\* the four penalty chains of _calculate_quality_score; 1 is 10 tenths,
\* 0.5 is 5, 2 is 20 and 10 is 100
\* variant of MoisturePenalty whose 5-point band is 2.0 wide
MoisturePenaltyWideBand(rs, row) ==
    IF "moisture" \notin DOMAIN rs THEN 0
    ELSE LET min_val == rs["moisture"]["min"]
             max_val == rs["moisture"]["max"]
         IN IF Ge(row, "moisture", min_val) /\ Le(row, "moisture", max_val) THEN 0
            ELSE IF Ge(row, "moisture", min_val - 20) /\ Le(row, "moisture", max_val + 20)
                 THEN 5
                 ELSE 15

MoisturePenalty(rs, row) ==
    IF "moisture" \notin DOMAIN rs THEN 0
    ELSE LET min_val == rs["moisture"]["min"]
             max_val == rs["moisture"]["max"]
         IN IF Ge(row, "moisture", min_val) /\ Le(row, "moisture", max_val) THEN 0
            ELSE IF Ge(row, "moisture", min_val - 10) /\ Le(row, "moisture", max_val + 10)
                 THEN 5
                 ELSE 15

\* variant of PhPenalty that falls back to the built-in pH bounds when the
\* rule set has no pH rule
PhPenaltyDefaultBounds(rs, row) ==
    LET min_val == IF "ph" \in DOMAIN rs THEN rs["ph"]["min"] ELSE DefaultRules["ph"]["min"]
        max_val == IF "ph" \in DOMAIN rs THEN rs["ph"]["max"] ELSE DefaultRules["ph"]["max"]
    IN IF Ge(row, "ph", min_val) /\ Le(row, "ph", max_val) THEN 0
       ELSE IF Ge(row, "ph", min_val - 5) /\ Le(row, "ph", max_val + 5) THEN 5
            ELSE 15

PhPenalty(rs, row) ==
    IF "ph" \notin DOMAIN rs THEN 0
    ELSE LET min_val == rs["ph"]["min"]
             max_val == rs["ph"]["max"]
         IN IF Ge(row, "ph", min_val) /\ Le(row, "ph", max_val) THEN 0
            ELSE IF Ge(row, "ph", min_val - 5) /\ Le(row, "ph", max_val + 5) THEN 5
                 ELSE 15

\* variant of DiastasePenalty whose 5-point band leaves out its own edge
DiastasePenaltyExclusive(rs, row) ==
    IF "diastase_activity" \notin DOMAIN rs THEN 0
    ELSE LET min_val == rs["diastase_activity"]["min"]
         IN IF Ge(row, "diastase_activity", min_val) THEN 0
            ELSE IF Ge(row, "diastase_activity", min_val - 20 + 1) THEN 5
                 ELSE 15

DiastasePenalty(rs, row) ==
    IF "diastase_activity" \notin DOMAIN rs THEN 0
    ELSE LET min_val == rs["diastase_activity"]["min"]
         IN IF Ge(row, "diastase_activity", min_val) THEN 0
            ELSE IF Ge(row, "diastase_activity", min_val - 20) THEN 5
                 ELSE 15

HmfPenalty(rs, row) ==
    IF "h_m_f" \notin DOMAIN rs THEN 0
    ELSE LET max_val == rs["h_m_f"]["max"]
         IN IF Le(row, "h_m_f", max_val) THEN 0
            ELSE IF Le(row, "h_m_f", max_val + 100) THEN 5
                 ELSE 15

\* variant of CalculateQualityScore that adds the penalties
CalculateQualityScoreAdding(rs, row) ==
    Max(0, 100 + MoisturePenalty(rs, row) + PhPenalty(rs, row)
               + DiastasePenalty(rs, row) + HmfPenalty(rs, row))

CalculateQualityScore(rs, row) ==
    Max(0, 100 - MoisturePenalty(rs, row) - PhPenalty(rs, row)
               - DiastasePenalty(rs, row) - HmfPenalty(rs, row))

CategorizeQuality(score) ==
    IF score >= 90 THEN "Excellent"
    ELSE IF score >= 80 THEN "Good"
    ELSE IF score >= 70 THEN "Fair"
    ELSE "Poor"

ScoreRow(rs, row) ==
    [row |-> row,
     quality_score |-> CalculateQualityScore(rs, row),
     quality_category |-> CategorizeQuality(CalculateQualityScore(rs, row))]

----------------------------------------------------------------------------
(* IndustrialETLProcessor: one run of run_etl_pipeline, stage by stage *)

NoResult == [status |-> "none"]
NoExc == [stage |-> "", message |-> ""]
NoCache == [row_count |-> -1]

\* What can be at config_path: no file, a file that is not JSON, a JSON
\* file that lacks a section the loader reads, or a file with all sections
\* whose quality.business_rules names a subset of the four parameters.
ConfigFiles ==
    {[kind |-> "missing"], [kind |-> "malformed"], [kind |-> "incomplete"]}
    \cup {[kind |-> "valid", business_rules |-> rs] : rs \in RuleSets}

\* variant of LoadConfig that raises for a file that is there and cannot be
\* loaded
LoadConfigStrict(file) ==
    IF file.kind = "valid"
    THEN [raised |-> FALSE, business_rules |-> file.business_rules]
    ELSE IF file.kind = "missing"
         THEN [raised |-> FALSE, business_rules |-> DefaultRules]
         ELSE [raised |-> TRUE, business_rules |-> <<>>]

\* _load_config: open, json.load and the reads of the sections are in one
\* try block whose except branch returns the default configuration
LoadConfig(file) ==
    IF file.kind = "valid"
    THEN [raised |-> FALSE, business_rules |-> file.business_rules]
    ELSE [raised |-> FALSE, business_rules |-> DefaultRules]

\* the variables of a run before the run
NoRunData ==
    /\ clock = 0
    /\ start_time = 0
    /\ input = <<>>
    /\ data = [columns |-> {}, rows |-> <<>>]
    /\ accepted = <<>>
    /\ scored = <<>>
    /\ transformed = <<>>
    /\ load_success = FALSE
    /\ loadError = ""
    /\ exc = NoExc
    /\ table = <<>>
    /\ cache = NoCache
    /\ stages = <<>>
    /\ result = NoResult

\* no run of run_etl_pipeline was started
RunNotStarted ==
    /\ pc = "not_started"
    /\ NoRunData

\* __init__: the configuration file decides the rules (an exception of
\* _load_config would leave __init__, and no processor would exist); the
\* database and the cache handles are None when the libraries are missing or
\* the connection could not be made.
EtlInit ==
    /\ config_file \in ConfigFiles
    /\ rules = LoadConfig(config_file).business_rules
    /\ db_engine \in {"engine", "None"}
    /\ redis_client \in {"client", "None"}
    /\ emptyApply \in {"series", "frame"}
    /\ pc = IF LoadConfig(config_file).raised THEN "config_error" ELSE "not_started"
    /\ NoRunData

\* run_etl_pipeline is entered: start_time = datetime.now()
StartRun ==
    /\ pc = "not_started"
    /\ pc' = "extract"
    /\ start_time' = clock
    /\ UNCHANGED <<config_file, rules, db_engine, redis_client, emptyApply, clock, input, data,
                   accepted, scored, transformed, load_success, loadError, exc,
                   table, cache, stages, result>>

\* extract_data on a source_path that holds one of the given sources: reads
\* the file, or raises
ExtractFrom(sources) ==
    /\ pc = "extract"
    /\ \E src \in sources, d \in 1..MaxTick :
        /\ clock' = clock + d
        /\ IF src.kind = "table"
           THEN /\ data' = [columns |-> src.columns, rows |-> src.rows]
                /\ input' = src.rows
                /\ exc' = exc
                /\ pc' = "transform"
           ELSE /\ exc' = [stage |-> "extract_data",
                           message |-> IF src.kind = "unsupported"
                                       THEN "Unsupported file format"
                                       ELSE IF src.kind = "empty"
                                       THEN "No columns to parse from file"
                                       ELSE "file could not be read"]
                /\ UNCHANGED <<data, input>>
                /\ pc' = "except"
    /\ stages' = Append(stages, "extract_data")
    /\ UNCHANGED <<config_file, rules, db_engine, redis_client, emptyApply, start_time,
                   accepted, scored, transformed, load_success, loadError,
                   table, cache, result>>

Extract == ExtractFrom(Sources)

\* transform_data: dropna, _apply_business_rules, scoring and categorisation
\* of every remaining row; any exception is re-raised.
\*  - dropna(subset=...) raises KeyError when one of the four columns is absent;
\*  - on an empty frame, DataFrame.apply(axis=1) returns, depending on the
\*    pandas installed, an empty Series (the assignment then works) or an empty
\*    frame (the assignment to the single column raises ValueError).
Transform ==
    /\ pc = "transform"
    /\ clock' = clock + 1
    /\ stages' = Append(stages, "transform_data")
    /\ IF ~(Params \subseteq data.columns)
       THEN /\ exc' = [stage |-> "transform_data", message |-> "KeyError"]
            /\ pc' = "except"
            /\ UNCHANGED <<accepted, scored, transformed>>
       ELSE LET acc == ApplyBusinessRules(rules, DropNa(data.rows))
            IN /\ accepted' = acc
               /\ IF acc = <<>> /\ emptyApply = "frame"
                  THEN /\ exc' = [stage |-> "transform_data",
                                  message |-> "Cannot set a DataFrame with multiple columns"]
                       /\ pc' = "except"
                       /\ UNCHANGED <<scored, transformed>>
                  ELSE /\ scored' = acc
                       /\ transformed' = [i \in 1..Len(acc) |-> ScoreRow(rules, acc[i])]
                       /\ exc' = exc
                       /\ pc' = "load"
    /\ UNCHANGED <<config_file, rules, db_engine, redis_client, emptyApply, start_time, input,
                   data, load_success, loadError, table, cache, result>>

\* variant of Load that is also invoked after a stage raised
LoadAfterFailure ==
    /\ pc \in {"load", "except"}
    /\ clock' = clock + 1
    /\ stages' = Append(stages, "load_data")
    /\ pc' = "loaded"
    /\ IF db_engine = "None"
       THEN /\ load_success' = FALSE
            /\ loadError' = "Database not available"
            /\ UNCHANGED <<table, cache>>
       ELSE /\ table' = table \o transformed
            /\ cache' = cache
            /\ load_success' = TRUE
            /\ loadError' = loadError
    /\ UNCHANGED <<config_file, rules, db_engine, redis_client, emptyApply,
                   start_time, input, data, accepted, scored, transformed, exc,
                   result>>

\* load_data: returns False when there is no database or when the write to
\* the database or to the cache raises (the exception is logged, not raised);
\* to_sql appends the frame in one transaction.
Load ==
    /\ pc = "load"
    /\ clock' = clock + 1
    /\ stages' = Append(stages, "load_data")
    /\ pc' = "loaded"
    /\ IF db_engine = "None"
       THEN /\ load_success' = FALSE
            /\ loadError' = "Database not available"
            /\ UNCHANGED <<table, cache>>
       ELSE \E dbOk \in BOOLEAN, cacheOk \in BOOLEAN :
            IF ~dbOk
            THEN /\ load_success' = FALSE
                 /\ loadError' = "to_sql failed"
                 /\ UNCHANGED <<table, cache>>
            ELSE /\ table' = table \o transformed
                 /\ IF redis_client = "client"
                    THEN IF cacheOk
                         THEN /\ cache' = [row_count |-> Len(transformed)]
                              /\ load_success' = TRUE
                              /\ loadError' = loadError
                         ELSE /\ cache' = cache
                              /\ load_success' = FALSE
                              /\ loadError' = "setex failed"
                    ELSE /\ cache' = cache
                         /\ load_success' = TRUE
                         /\ loadError' = loadError
    /\ UNCHANGED <<config_file, rules, db_engine, redis_client, emptyApply, start_time, input,
                   data, accepted, scored, transformed, exc, result>>

\* variant of BuildResult that ignores what load_data returned
BuildResultAlwaysSuccess(ok, duration, rows, now) ==
    [status |-> "success",
     duration_seconds |-> duration,
     rows_processed |-> rows,
     timestamp |-> now]

\* the dict built after load_data returned (the try branch)
BuildResult(ok, duration, rows, now) ==
    [status |-> IF ok THEN "success" ELSE "failed",
     duration_seconds |-> duration,
     rows_processed |-> rows,
     timestamp |-> now]

\* the dict built by the except branch
BuildFailure(e, duration, now) ==
    [status |-> "failed",
     error |-> e,
     duration_seconds |-> duration,
     timestamp |-> now]

\* variant of ReturnResult that reports the number of rows read
ReturnResultCountingInput ==
    /\ pc = "loaded"
    /\ result' = BuildResult(load_success, clock - start_time, Len(input), clock)
    /\ pc' = "returned"
    /\ UNCHANGED <<config_file, rules, db_engine, redis_client, emptyApply,
                   clock, start_time, input, data, accepted, scored, transformed,
                   load_success, loadError, exc, table, cache, stages>>

\* run_etl_pipeline returns from its try branch
ReturnResult ==
    /\ pc = "loaded"
    /\ result' = BuildResult(load_success, clock - start_time, Len(transformed), clock)
    /\ pc' = "returned"
    /\ UNCHANGED <<config_file, rules, db_engine, redis_client, emptyApply, clock, start_time,
                   input, data, accepted, scored, transformed, load_success,
                   loadError, exc, table, cache, stages>>

\* variant of ReturnFailure that does not return and goes on to the code
\* after load_data
ReturnFailureFallsThrough ==
    /\ pc = "except"
    /\ result' = BuildFailure(exc.message, clock - start_time, clock)
    /\ pc' = "loaded"
    /\ UNCHANGED <<config_file, rules, db_engine, redis_client, emptyApply, clock, start_time,
                   input, data, accepted, scored, transformed, load_success,
                   loadError, exc, table, cache, stages>>

\* run_etl_pipeline returns from its except branch
ReturnFailure ==
    /\ pc = "except"
    /\ result' = BuildFailure(exc.message, clock - start_time, clock)
    /\ pc' = "returned"
    /\ UNCHANGED <<config_file, rules, db_engine, redis_client, emptyApply, clock, start_time,
                   input, data, accepted, scored, transformed, load_success,
                   loadError, exc, table, cache, stages>>

\* variant of Cleanup that also drops the loaded business rules
CleanupDroppingRules ==
    /\ pc = "returned"
    /\ pc' = "cleaned"
    /\ rules' = <<>>
    /\ UNCHANGED <<config_file, db_engine, redis_client, emptyApply, clock,
                   start_time, input, data, accepted, scored, transformed,
                   load_success, loadError, exc, table, cache, stages, result>>

\* cleanup: stops Spark, disposes the engine, closes the cache connection
Cleanup ==
    /\ pc = "returned"
    /\ pc' = "cleaned"
    /\ UNCHANGED <<config_file, rules, db_engine, redis_client, emptyApply, clock, start_time,
                   input, data, accepted, scored, transformed, load_success,
                   loadError, exc, table, cache, stages, result>>

NoCall == [method |-> "none"]

ScoreIdle == call = NoCall

\* The alert thresholds of the default monitoring configuration, in
\* hundredths: 0.1, 0.05 and 0.2
DefaultAlertThresholds ==
    [quality_threshold_breach |-> 10, pipeline_failure |-> 5,
     performance_degradation |-> 20]

\* a MonitoringSystem with the default configuration, check_alerts not called
MonIdle ==
    /\ perfEnabled = TRUE
    /\ qualEnabled = TRUE
    /\ psutilAvail = TRUE
    /\ alert_thresholds = DefaultAlertThresholds
    /\ alerts = <<>>
    /\ lastCheck = [called |-> FALSE]
    /\ checks = 0

\* the local variables of a run_etl_pipeline call that was not made
OtherNotStarted ==
    [pc |-> "not_started", start_time |-> 0, input |-> <<>>,
     data |-> [columns |-> {}, rows |-> <<>>], transformed |-> <<>>,
     load_success |-> FALSE, written |-> FALSE, exc |-> NoExc,
     result |-> NoResult]

\* no second call of run_etl_pipeline
OtherIdle == otherRun = OtherNotStarted

\* run_demo was not called
DemoIdle ==
    /\ demoPc = "idle"
    /\ pipeline_results = <<>>
    /\ demoLog = <<>>

\* a MonitoringSystem after __init__: start_monitoring was not called
ThreadIdle ==
    /\ enabled = TRUE
    /\ prometheusAvail = TRUE
    /\ httpServer = FALSE
    /\ monitoring_active = FALSE
    /\ mainPc = "idle"
    /\ threads = <<>>
    /\ starts = 0

Init == EtlInit /\ ScoreIdle /\ MonIdle /\ OtherIdle /\ DemoIdle /\ ThreadIdle

Next ==
    \/ StartRun /\ UNCHANGED <<scoreVars, monVars, concVars, demoVars, threadVars>>
    \/ Extract /\ UNCHANGED <<scoreVars, monVars, concVars, demoVars, threadVars>>
    \/ Transform /\ UNCHANGED <<scoreVars, monVars, concVars, demoVars, threadVars>>
    \/ Load /\ UNCHANGED <<scoreVars, monVars, concVars, demoVars, threadVars>>
    \/ ReturnResult /\ UNCHANGED <<scoreVars, monVars, concVars, demoVars, threadVars>>
    \/ ReturnFailure /\ UNCHANGED <<scoreVars, monVars, concVars, demoVars, threadVars>>
    \/ Cleanup /\ UNCHANGED <<scoreVars, monVars, concVars, demoVars, threadVars>>

Spec == Init /\ [][Next]_vars

----------------------------------------------------------------------------
(* UnifiedPowerBIGenerator: scoring, categorisation, compliance *)

\* variant of UnifiedMoisturePenalty with the penalties of its two middle
\* tiers exchanged
UnifiedMoisturePenaltySwappedTiers(row) ==
    LET moisture_dev == Abs(row["moisture"] - 175)
    IN IF moisture_dev <= 10 THEN 0
       ELSE IF moisture_dev <= 20 THEN 10
       ELSE IF moisture_dev <= 30 THEN 5
       ELSE 20

\* deviation from the target 17.5, tiers at 1.0, 2.0 and 3.0
UnifiedMoisturePenalty(row) ==
    LET moisture_dev == Abs(row["moisture"] - 175)
    IN IF moisture_dev <= 10 THEN 0
       ELSE IF moisture_dev <= 20 THEN 5
       ELSE IF moisture_dev <= 30 THEN 10
       ELSE 20

\* deviation from the target 5.0, tiers at 0.5, 1.0 and 1.5
UnifiedPhPenalty(row) ==
    LET ph_dev == Abs(row["ph"] - 50)
    IN IF ph_dev <= 5 THEN 0
       ELSE IF ph_dev <= 10 THEN 5
       ELSE IF ph_dev <= 15 THEN 10
       ELSE 20

UnifiedDiastasePenalty(row) ==
    IF row["diastase_activity"] >= 80 THEN 0
    ELSE IF row["diastase_activity"] >= 60 THEN 5
    ELSE 15

UnifiedHmfPenalty(row) ==
    IF row["h_m_f"] <= 400 THEN 0
    ELSE IF row["h_m_f"] <= 500 THEN 5
    ELSE 15

\* variant of UnifiedCalculateQualityScore that deducts the worst penalty only
UnifiedCalculateQualityScoreWorst(row) ==
    Max(0, 100 - Max(Max(UnifiedMoisturePenalty(row), UnifiedPhPenalty(row)),
                     Max(UnifiedDiastasePenalty(row), UnifiedHmfPenalty(row))))

UnifiedCalculateQualityScore(row) ==
    Max(0, 100 - UnifiedMoisturePenalty(row) - UnifiedPhPenalty(row)
               - UnifiedDiastasePenalty(row) - UnifiedHmfPenalty(row))

\* variant of UnifiedCategorizeQuality with strict comparisons
UnifiedCategorizeQualityStrict(score) ==
    IF score > 95 THEN "Premium"
    ELSE IF score > 90 THEN "Excellent"
    ELSE IF score > 80 THEN "Good"
    ELSE IF score > 70 THEN "Fair"
    ELSE "Poor"

UnifiedCategorizeQuality(score) ==
    IF score >= 95 THEN "Premium"
    ELSE IF score >= 90 THEN "Excellent"
    ELSE IF score >= 80 THEN "Good"
    ELSE IF score >= 70 THEN "Fair"
    ELSE "Poor"

\* variant of GetComplianceStatus whose Warning floor is 75
GetComplianceStatusWarning75(score) ==
    IF score >= 80 THEN "Compliant"
    ELSE IF score >= 75 THEN "Warning"
    ELSE "Non-Compliant"

GetComplianceStatus(score) ==
    IF score >= 80 THEN "Compliant"
    ELSE IF score >= 70 THEN "Warning"
    ELSE "Non-Compliant"

\* the three derived columns generate_sample_data computes for a row
UnifiedScoreRow(row) ==
    [row |-> row,
     quality_score |-> UnifiedCalculateQualityScore(row),
     quality_category |-> UnifiedCategorizeQuality(UnifiedCalculateQualityScore(row)),
     compliance_status |-> GetComplianceStatus(UnifiedCalculateQualityScore(row))]

----------------------------------------------------------------------------
(* PowerBIIntegration: scoring and categorisation of its sample data *)

\* variant of CalculateSampleQualityScore whose 5-point pH band is 2.5..7.5
CalculateSampleQualityScoreWidePh(row) ==
    LET moisture == IF Ge(row, "moisture", 150) /\ Le(row, "moisture", 200) THEN 0
                    ELSE IF Ge(row, "moisture", 140) /\ Le(row, "moisture", 210) THEN 5
                    ELSE 15
        ph == IF Ge(row, "ph", 35) /\ Le(row, "ph", 65) THEN 0
              ELSE IF Ge(row, "ph", 25) /\ Le(row, "ph", 75) THEN 5
              ELSE 15
        diastase == IF Ge(row, "diastase_activity", 80) THEN 0
                    ELSE IF Ge(row, "diastase_activity", 60) THEN 5
                    ELSE 15
        hmf == IF Le(row, "h_m_f", 400) THEN 0
               ELSE IF Le(row, "h_m_f", 500) THEN 5
               ELSE 15
    IN Max(0, 100 - moisture - ph - diastase - hmf)

\* _calculate_sample_quality_score: the bounds are literals of the method
CalculateSampleQualityScore(row) ==
    LET moisture == IF Ge(row, "moisture", 150) /\ Le(row, "moisture", 200) THEN 0
                    ELSE IF Ge(row, "moisture", 140) /\ Le(row, "moisture", 210) THEN 5
                    ELSE 15
        ph == IF Ge(row, "ph", 35) /\ Le(row, "ph", 65) THEN 0
              ELSE IF Ge(row, "ph", 30) /\ Le(row, "ph", 70) THEN 5
              ELSE 15
        diastase == IF Ge(row, "diastase_activity", 80) THEN 0
                    ELSE IF Ge(row, "diastase_activity", 60) THEN 5
                    ELSE 15
        hmf == IF Le(row, "h_m_f", 400) THEN 0
               ELSE IF Le(row, "h_m_f", 500) THEN 5
               ELSE 15
    IN Max(0, 100 - moisture - ph - diastase - hmf)

CategorizeSampleQuality(score) ==
    IF score >= 90 THEN "Excellent"
    ELSE IF score >= 80 THEN "Good"
    ELSE IF score >= 70 THEN "Fair"
    ELSE "Poor"

\* the two derived columns create_sample_data_for_powerbi computes for a row
SampleScoreRow(row) ==
    [row |-> row,
     quality_score |-> CalculateSampleQualityScore(row),
     quality_category |-> CategorizeSampleQuality(CalculateSampleQualityScore(row))]

----------------------------------------------------------------------------
(* The scoring and classification methods called on their own, one call at
   a time: call holds the call in progress with the value it returns *)

\* IndustrialETLProcessor scores and categorises a row
EtlScoreRow ==
    /\ call = NoCall
    /\ \E row \in ProbeRows :
        call' = [method |-> "etl.score_row", arg |-> row, ret |-> ScoreRow(rules, row)]

\* UnifiedPowerBIGenerator scores, categorises and rates a row
UnifiedScore ==
    /\ call = NoCall
    /\ \E row \in ProbeRows :
        call' = [method |-> "unified.score_row", arg |-> row, ret |-> UnifiedScoreRow(row)]

\* PowerBIIntegration scores and categorises a row
SampleScore ==
    /\ call = NoCall
    /\ \E row \in ProbeRows :
        call' = [method |-> "sample.score_row", arg |-> row, ret |-> SampleScoreRow(row)]

\* PowerBIIntegration._categorize_sample_quality
SampleCategorize ==
    /\ call = NoCall
    /\ \E score \in Scores :
        call' = [method |-> "sample.categorize", arg |-> score,
                 ret |-> CategorizeSampleQuality(score)]

\* IndustrialETLProcessor._categorize_quality
EtlCategorize ==
    /\ call = NoCall
    /\ \E score \in Scores :
        call' = [method |-> "etl.categorize", arg |-> score,
                 ret |-> CategorizeQuality(score)]

\* UnifiedPowerBIGenerator._categorize_quality
UnifiedCategorize ==
    /\ call = NoCall
    /\ \E score \in Scores :
        call' = [method |-> "unified.categorize", arg |-> score,
                 ret |-> UnifiedCategorizeQuality(score)]

\* UnifiedPowerBIGenerator._get_compliance_status
UnifiedCompliance ==
    /\ call = NoCall
    /\ \E score \in Scores :
        call' = [method |-> "unified.compliance", arg |-> score,
                 ret |-> GetComplianceStatus(score)]

\* the call returns to its caller
CallReturns ==
    /\ call # NoCall
    /\ call' = NoCall

ScoreInit ==
    /\ rules \in RuleSets
    /\ config_file = [kind |-> "valid", business_rules |-> rules]
    /\ db_engine = "None"
    /\ redis_client = "None"
    /\ emptyApply = "series"
    /\ RunNotStarted
    /\ ScoreIdle
    /\ MonIdle
    /\ OtherIdle
    /\ DemoIdle
    /\ ThreadIdle

ScoreNext ==
    \/ EtlScoreRow /\ UNCHANGED <<etlVars, monVars, concVars, demoVars, threadVars>>
    \/ UnifiedScore /\ UNCHANGED <<etlVars, monVars, concVars, demoVars, threadVars>>
    \/ EtlCategorize /\ UNCHANGED <<etlVars, monVars, concVars, demoVars, threadVars>>
    \/ UnifiedCategorize /\ UNCHANGED <<etlVars, monVars, concVars, demoVars, threadVars>>
    \/ UnifiedCompliance /\ UNCHANGED <<etlVars, monVars, concVars, demoVars, threadVars>>
    \/ SampleScore /\ UNCHANGED <<etlVars, monVars, concVars, demoVars, threadVars>>
    \/ SampleCategorize /\ UNCHANGED <<etlVars, monVars, concVars, demoVars, threadVars>>
    \/ CallReturns /\ UNCHANGED <<etlVars, monVars, concVars, demoVars, threadVars>>

SpecScore == ScoreInit /\ [][ScoreNext]_vars

----------------------------------------------------------------------------
(* MonitoringSystem: check_alerts *)

\* What a read of a system metric gives: a percentage in tenths of a percent,
\* or an exception; "not_read" stands for a read that was not made.
NotRead == [state |-> "not_read"]
Raised == [state |-> "raised"]
Reading(v) == [state |-> "read", value |-> v]

CpuReadings == {Reading(v) : v \in {500, 799, 800, 801, 1000}} \cup {Raised}
MemReadings == {Reading(v) : v \in {500, 849, 850, 851, 1000}} \cup {Raised}

\* The 'alerts' sections a configuration file can give: the default one, and
\* one that sets the performance threshold to 90.0 (in hundredths)
AlertThresholdConfigs ==
    {DefaultAlertThresholds,
     [DefaultAlertThresholds EXCEPT !.performance_degradation = 9000]}

Alert(metric, v) ==
    [type |-> "performance_degradation", severity |-> "warning",
     metric |-> metric, value |-> v]

\* _check_quality_alerts: returns the empty list
QualityAlerts == <<>>

\* variant of PerformanceAlerts that alerts from the threshold on
PerformanceAlertsInclusive(available, cpu, mem) ==
    IF ~available \/ cpu.state # "read" THEN <<>>
    ELSE LET cpuAlerts == IF cpu.value >= 800 THEN <<Alert("cpu", cpu.value)>> ELSE <<>>
         IN IF mem.state # "read" THEN cpuAlerts
            ELSE IF mem.value >= 850
                 THEN Append(cpuAlerts, Alert("memory", mem.value))
                 ELSE cpuAlerts

\* _check_performance_alerts: CPU above 80, then memory above 85; an
\* exception of a read ends the method with the alerts appended so far
PerformanceAlerts(available, cpu, mem) ==
    IF ~available \/ cpu.state # "read" THEN <<>>
    ELSE LET cpuAlerts == IF cpu.value > 800 THEN <<Alert("cpu", cpu.value)>> ELSE <<>>
         IN IF mem.state # "read" THEN cpuAlerts
            ELSE IF mem.value > 850
                 THEN Append(cpuAlerts, Alert("memory", mem.value))
                 ELSE cpuAlerts

\* variant of CheckAlerts that returns the alerts without storing them
CheckAlertsNotStoring ==
    /\ checks < MaxChecks
    /\ checks' = checks + 1
    /\ \E cpu \in CpuReadings, mem \in MemReadings :
        LET cpuSeen == IF perfEnabled /\ psutilAvail THEN cpu ELSE NotRead
            memSeen == IF cpuSeen.state = "read" THEN mem ELSE NotRead
            found == (IF qualEnabled THEN QualityAlerts ELSE <<>>)
                     \o (IF perfEnabled
                         THEN PerformanceAlerts(psutilAvail, cpuSeen, memSeen)
                         ELSE <<>>)
        IN /\ alerts' = alerts
           /\ lastCheck' = [called |-> TRUE, cpuLevel |-> cpu, memLevel |-> mem,
                            cpu |-> cpuSeen, mem |-> memSeen, returned |-> found]
    /\ UNCHANGED <<perfEnabled, qualEnabled, psutilAvail, alert_thresholds>>

\* check_alerts: one check cycle.  cpu and mem are what a read of the metric
\* gives in this cycle (cpuLevel, memLevel); the reads that are made (cpu,
\* mem of lastCheck) are those of the performance check: the CPU when psutil
\* is there, the memory when the CPU was read.
CheckAlerts ==
    /\ checks < MaxChecks
    /\ checks' = checks + 1
    /\ \E cpu \in CpuReadings, mem \in MemReadings :
        LET cpuSeen == IF perfEnabled /\ psutilAvail THEN cpu ELSE NotRead
            memSeen == IF cpuSeen.state = "read" THEN mem ELSE NotRead
            found == (IF qualEnabled THEN QualityAlerts ELSE <<>>)
                     \o (IF perfEnabled
                         THEN PerformanceAlerts(psutilAvail, cpuSeen, memSeen)
                         ELSE <<>>)
        IN /\ alerts' = alerts \o found
           /\ lastCheck' = [called |-> TRUE, cpuLevel |-> cpu, memLevel |-> mem,
                            cpu |-> cpuSeen, mem |-> memSeen, returned |-> found]
    /\ UNCHANGED <<perfEnabled, qualEnabled, psutilAvail, alert_thresholds>>

MonInit ==
    /\ perfEnabled \in BOOLEAN
    /\ qualEnabled \in BOOLEAN
    /\ psutilAvail \in BOOLEAN
    /\ alert_thresholds \in AlertThresholdConfigs
    /\ alerts = <<>>
    /\ lastCheck = [called |-> FALSE]
    /\ checks = 0
    /\ config_file = [kind |-> "missing"]
    /\ rules = DefaultRules
    /\ db_engine = "None"
    /\ redis_client = "None"
    /\ emptyApply = "series"
    /\ RunNotStarted
    /\ ScoreIdle
    /\ OtherIdle
    /\ DemoIdle
    /\ ThreadIdle

MonNext == CheckAlerts /\ UNCHANGED <<etlVars, scoreVars, concVars, demoVars, threadVars>>

SpecMon == MonInit /\ [][MonNext]_vars

----------------------------------------------------------------------------
(* Two run_etl_pipeline calls on one processor, in two threads *)

\* A call keeps its frames, its start time and its result in local
\* variables; the calls share the processor (configuration, engine and cache
\* handles), the clock, the target table and the cache entry.  A step is one
\* stage method: what a stage does inside touches only the call's own frame,
\* to_sql is one transaction and setex one command.
processorVars == <<config_file, rules, db_engine, redis_client, emptyApply>>
runLocals == <<pc, start_time, input, data, accepted, scored, transformed,
               load_success, loadError, exc, stages, result>>

\* What the source_path of either call can hold
ConcSources ==
    {[kind |-> "unsupported", columns |-> {}, rows |-> <<>>],
     [kind |-> "table", columns |-> Params, rows |-> <<IdealRow>>],
     [kind |-> "table", columns |-> Params,
      rows |-> <<[IdealRow EXCEPT !.moisture = 205]>>],
     [kind |-> "table", columns |-> Params,
      rows |-> <<[IdealRow EXCEPT !.ph = 29], [IdealRow EXCEPT !.moisture = 150]>>]}

\* the second call is entered
OtherStartRun ==
    /\ otherRun.pc = "not_started"
    /\ otherRun' = [otherRun EXCEPT !.pc = "extract", !.start_time = clock]
    /\ UNCHANGED <<processorVars, runLocals, clock, table, cache>>

\* extract_data of the second call
OtherExtract ==
    /\ otherRun.pc = "extract"
    /\ \E src \in ConcSources, d \in 1..MaxTick :
        /\ clock' = clock + d
        /\ otherRun' =
              IF src.kind = "table"
              THEN [otherRun EXCEPT !.data = [columns |-> src.columns, rows |-> src.rows],
                                    !.input = src.rows,
                                    !.pc = "transform"]
              ELSE [otherRun EXCEPT !.exc = [stage |-> "extract_data",
                                             message |-> "Unsupported file format"],
                                    !.pc = "except"]
    /\ UNCHANGED <<processorVars, runLocals, table, cache>>

\* variant of OtherFrame in which the frame that was read is kept on the
\* processor, one for all calls
OtherFrameShared == data

\* the frame transform_data of the second call works on: its argument, the
\* frame the call's own extract_data returned
OtherFrame == otherRun.data

\* transform_data of the second call
OtherTransform ==
    /\ otherRun.pc = "transform"
    /\ clock' = clock + 1
    /\ IF ~(Params \subseteq OtherFrame.columns)
       THEN otherRun' = [otherRun EXCEPT !.exc = [stage |-> "transform_data",
                                                  message |-> "KeyError"],
                                         !.pc = "except"]
       ELSE LET acc == ApplyBusinessRules(rules, DropNa(OtherFrame.rows))
            IN IF acc = <<>> /\ emptyApply = "frame"
               THEN otherRun' =
                     [otherRun EXCEPT
                         !.exc = [stage |-> "transform_data",
                                  message |-> "Cannot set a DataFrame with multiple columns"],
                         !.pc = "except"]
               ELSE otherRun' =
                     [otherRun EXCEPT
                         !.transformed = [i \in 1..Len(acc) |-> ScoreRow(rules, acc[i])],
                         !.pc = "load"]
    /\ UNCHANGED <<processorVars, runLocals, table, cache>>

\* load_data of the second call
OtherLoad ==
    /\ otherRun.pc = "load"
    /\ clock' = clock + 1
    /\ IF db_engine = "None"
       THEN /\ otherRun' = [otherRun EXCEPT !.pc = "loaded"]
            /\ UNCHANGED <<table, cache>>
       ELSE \E dbOk \in BOOLEAN, cacheOk \in BOOLEAN :
            IF ~dbOk
            THEN /\ otherRun' = [otherRun EXCEPT !.pc = "loaded"]
                 /\ UNCHANGED <<table, cache>>
            ELSE /\ table' = table \o otherRun.transformed
                 /\ IF redis_client = "client"
                    THEN IF cacheOk
                         THEN /\ cache' = [row_count |-> Len(otherRun.transformed)]
                              /\ otherRun' = [otherRun EXCEPT !.pc = "loaded",
                                                              !.written = TRUE,
                                                              !.load_success = TRUE]
                         ELSE /\ cache' = cache
                              /\ otherRun' = [otherRun EXCEPT !.pc = "loaded",
                                                              !.written = TRUE]
                    ELSE /\ cache' = cache
                         /\ otherRun' = [otherRun EXCEPT !.pc = "loaded",
                                                         !.written = TRUE,
                                                         !.load_success = TRUE]
    /\ UNCHANGED <<processorVars, runLocals>>

\* the second call returns from its try branch
OtherReturnResult ==
    /\ otherRun.pc = "loaded"
    /\ otherRun' = [otherRun EXCEPT
                       !.result = BuildResult(otherRun.load_success,
                                              clock - otherRun.start_time,
                                              Len(otherRun.transformed), clock),
                       !.pc = "returned"]
    /\ UNCHANGED <<processorVars, runLocals, clock, table, cache>>

\* the second call returns from its except branch
OtherReturnFailure ==
    /\ otherRun.pc = "except"
    /\ otherRun' = [otherRun EXCEPT
                       !.result = BuildFailure(otherRun.exc.message,
                                               clock - otherRun.start_time, clock),
                       !.pc = "returned"]
    /\ UNCHANGED <<processorVars, runLocals, clock, table, cache>>

\* one processor, built from no configuration file or from one with two
\* rules, and no call made yet
ConcInit ==
    /\ EtlInit
    /\ config_file \in {[kind |-> "missing"],
                        [kind |-> "valid",
                         business_rules |-> Restrict(DefaultRules, {"moisture", "h_m_f"})]}
    /\ ScoreIdle
    /\ MonIdle
    /\ OtherIdle
    /\ DemoIdle
    /\ ThreadIdle

ConcNext ==
    \/ StartRun /\ UNCHANGED <<scoreVars, monVars, concVars, demoVars, threadVars>>
    \/ ExtractFrom(ConcSources) /\ UNCHANGED <<scoreVars, monVars, concVars, demoVars, threadVars>>
    \/ Transform /\ UNCHANGED <<scoreVars, monVars, concVars, demoVars, threadVars>>
    \/ Load /\ UNCHANGED <<scoreVars, monVars, concVars, demoVars, threadVars>>
    \/ ReturnResult /\ UNCHANGED <<scoreVars, monVars, concVars, demoVars, threadVars>>
    \/ ReturnFailure /\ UNCHANGED <<scoreVars, monVars, concVars, demoVars, threadVars>>
    \/ OtherStartRun /\ UNCHANGED <<scoreVars, monVars, demoVars, threadVars>>
    \/ OtherExtract /\ UNCHANGED <<scoreVars, monVars, demoVars, threadVars>>
    \/ OtherTransform /\ UNCHANGED <<scoreVars, monVars, demoVars, threadVars>>
    \/ OtherLoad /\ UNCHANGED <<scoreVars, monVars, demoVars, threadVars>>
    \/ OtherReturnResult /\ UNCHANGED <<scoreVars, monVars, demoVars, threadVars>>
    \/ OtherReturnFailure /\ UNCHANGED <<scoreVars, monVars, demoVars, threadVars>>

SpecConc == ConcInit /\ [][ConcNext]_vars

----------------------------------------------------------------------------
(* IndustrialHoneyPipeline.run_demo *)

\* The sample file run_demo writes and hands to the run: rows drawn within
\* the built-in bounds, all columns there; or a file whose read fails.
DemoSamples ==
    {[kind |-> "table", columns |-> Params, rows |-> <<IdealRow>>],
     [kind |-> "table", columns |-> Params,
      rows |-> <<IdealRow, [IdealRow EXCEPT !.moisture = 150]>>],
     [kind |-> "unreadable", columns |-> {}, rows |-> <<>>]}

\* run_demo generates the sample data and writes the sample file; an
\* exception here reaches the outer except branch, which re-raises after the
\* finally block
DemoGenerateSample ==
    /\ demoPc = "idle"
    /\ \E ok \in BOOLEAN :
        IF ok
        THEN /\ demoPc' = "step1"
             /\ demoLog' = Append(demoLog, "sample_data")
        ELSE /\ demoPc' = "finally_raising"
             /\ demoLog' = Append(demoLog, "sample_data_failed")
    /\ UNCHANGED pipeline_results

\* Step 1: start_monitoring, which catches its own exceptions
DemoStartMonitoring ==
    /\ demoPc = "step1"
    /\ demoPc' = "step2"
    /\ demoLog' = Append(demoLog, "start_monitoring")
    /\ UNCHANGED pipeline_results

\* Step 2: the steps of run_etl_pipeline on the sample file
DemoEtlStep ==
    /\ demoPc = "step2"
    /\ \/ StartRun
       \/ ExtractFrom(DemoSamples)
       \/ Transform
       \/ Load
       \/ ReturnResult
       \/ ReturnFailure
    /\ UNCHANGED demoVars

\* variant of DemoRecordEtl that raises when the run failed
DemoRecordEtlRaising ==
    /\ demoPc = "step2"
    /\ pc = "returned"
    /\ IF result.status = "success"
       THEN /\ pipeline_results' =
                 [k \in DOMAIN pipeline_results \cup {"etl"} |->
                     IF k = "etl" THEN result ELSE pipeline_results[k]]
            /\ demoPc' = "step3"
       ELSE /\ pipeline_results' = pipeline_results
            /\ demoPc' = "finally_raising"
    /\ demoLog' = Append(demoLog, "run_etl_pipeline")

\* Step 2, after run_etl_pipeline returned: the outcome is stored under
\* "etl" and a line is printed for either status
DemoRecordEtl ==
    /\ demoPc = "step2"
    /\ pc = "returned"
    /\ pipeline_results' =
          [k \in DOMAIN pipeline_results \cup {"etl"} |->
              IF k = "etl" THEN result ELSE pipeline_results[k]]
    /\ demoPc' = "step3"
    /\ demoLog' = Append(demoLog, "run_etl_pipeline")

\* Step 3: generate_powerbi_template, its exception caught and printed
DemoTemplate ==
    /\ demoPc = "step3"
    /\ demoPc' = "step4"
    /\ \E ok \in BOOLEAN :
        demoLog' = Append(demoLog, IF ok THEN "template" ELSE "template_failed")
    /\ UNCHANGED pipeline_results

\* Step 4: generate_all_reports, its exception caught and printed
DemoReports ==
    /\ demoPc = "step4"
    /\ demoPc' = "save"
    /\ \E ok \in BOOLEAN :
        demoLog' = Append(demoLog, IF ok THEN "reports" ELSE "reports_failed")
    /\ UNCHANGED pipeline_results

\* _save_pipeline_results, its exception caught and printed
DemoSave ==
    /\ demoPc = "save"
    /\ demoPc' = "finally"
    /\ \E ok \in BOOLEAN :
        demoLog' = Append(demoLog, IF ok THEN "save" ELSE "save_failed")
    /\ UNCHANGED pipeline_results

\* the finally block: cleanup of the processor (and of the monitoring
\* system); then run_demo returns, or re-raises the exception it caught
DemoCleanup ==
    /\ demoPc \in {"finally", "finally_raising"}
    /\ demoPc' = IF demoPc = "finally" THEN "done" ELSE "raised"
    /\ demoLog' = Append(demoLog, "cleanup")
    /\ \/ Cleanup
       \/ pc # "returned" /\ UNCHANGED etlVars
    /\ UNCHANGED pipeline_results

DemoInit == EtlInit /\ ScoreIdle /\ MonIdle /\ OtherIdle /\ DemoIdle /\ ThreadIdle

DemoNext ==
    \/ DemoGenerateSample /\ UNCHANGED <<etlVars, scoreVars, monVars, concVars, threadVars>>
    \/ DemoStartMonitoring /\ UNCHANGED <<etlVars, scoreVars, monVars, concVars, threadVars>>
    \/ DemoEtlStep /\ UNCHANGED <<scoreVars, monVars, concVars, threadVars>>
    \/ DemoRecordEtl /\ UNCHANGED <<etlVars, scoreVars, monVars, concVars, threadVars>>
    \/ DemoTemplate /\ UNCHANGED <<etlVars, scoreVars, monVars, concVars, threadVars>>
    \/ DemoReports /\ UNCHANGED <<etlVars, scoreVars, monVars, concVars, threadVars>>
    \/ DemoSave /\ UNCHANGED <<etlVars, scoreVars, monVars, concVars, threadVars>>
    \/ DemoCleanup /\ UNCHANGED <<scoreVars, monVars, concVars, threadVars>>

SpecDemo == DemoInit /\ [][DemoNext]_vars

----------------------------------------------------------------------------
(* MonitoringSystem: start_monitoring and cleanup called from one thread,
   and the monitor threads they start and stop.  self.monitoring_active is
   read by the monitor threads and written by the calling thread without a
   lock: the steps below interleave freely. *)

\* the monitor threads that have not left _run_system_monitor
Running == {i \in 1..Len(threads) : threads[i].pc # "exited"}

\* start_monitoring, from its call to the line before monitoring_active is
\* set: it returns at once when monitoring is disabled; start_http_server
\* raises when the port is taken (by the server an earlier call started,
\* or by another process) and the except branch logs and returns;
\* _start_system_monitoring creates and starts a daemon thread on
\* _run_system_monitor.
StartMonitoring ==
    /\ mainPc = "idle"
    /\ starts < MaxStarts
    /\ starts' = starts + 1
    /\ IF ~enabled
       THEN UNCHANGED <<httpServer, mainPc, threads>>
       ELSE \E served \in {"skipped", "listening", "raised"} :
            /\ served = "skipped" <=> ~prometheusAvail
            /\ served = "listening" => ~httpServer
            /\ IF served = "raised"
               THEN UNCHANGED <<httpServer, mainPc, threads>>
               ELSE /\ httpServer' = (served = "listening")
                    /\ threads' = IF perfEnabled /\ psutilAvail
                                  THEN Append(threads, [pc |-> "check"])
                                  ELSE threads
                    /\ mainPc' = "set_active"
    /\ UNCHANGED <<enabled, prometheusAvail, monitoring_active>>

\* start_monitoring, line 177: self.monitoring_active = True, and the return
SetActive ==
    /\ mainPc = "set_active"
    /\ monitoring_active' = TRUE
    /\ mainPc' = "idle"
    /\ UNCHANGED <<enabled, prometheusAvail, httpServer, threads, starts>>

\* cleanup: self.monitoring_active = False, then the join of
\* self.system_monitor_thread when the attribute exists
CleanupMonitoring ==
    /\ mainPc = "idle"
    /\ monitoring_active' = FALSE
    /\ mainPc' = IF threads # <<>> THEN "join" ELSE "idle"
    /\ UNCHANGED <<enabled, prometheusAvail, httpServer, threads, starts>>

\* join(timeout=5) returns: the thread has ended, or the five seconds have
\* passed while it is in its sleep of thirty
JoinReturns ==
    /\ mainPc = "join"
    /\ threads[Len(threads)].pc \in {"exited", "sleep"}
    /\ mainPc' = "idle"
    /\ UNCHANGED <<enabled, prometheusAvail, httpServer, monitoring_active, threads, starts>>

\* _run_system_monitor: the test of the while loop
MonitorCheck(i) ==
    /\ threads[i].pc = "check"
    /\ threads' = [threads EXCEPT ![i].pc =
                      IF monitoring_active THEN "collect" ELSE "exited"]
    /\ UNCHANGED <<enabled, prometheusAvail, httpServer, monitoring_active, mainPc, starts>>

\* metrics_collector(), which catches its own exceptions
MonitorCollect(i) ==
    /\ threads[i].pc = "collect"
    /\ threads' = [threads EXCEPT ![i].pc = "sleep"]
    /\ UNCHANGED <<enabled, prometheusAvail, httpServer, monitoring_active, mainPc, starts>>

\* time.sleep(30) ends
MonitorWake(i) ==
    /\ threads[i].pc = "sleep"
    /\ threads' = [threads EXCEPT ![i].pc = "check"]
    /\ UNCHANGED <<enabled, prometheusAvail, httpServer, monitoring_active, mainPc, starts>>

ThreadInit ==
    /\ enabled \in BOOLEAN
    /\ prometheusAvail \in BOOLEAN
    /\ httpServer = FALSE
    /\ monitoring_active = FALSE
    /\ mainPc = "idle"
    /\ threads = <<>>
    /\ starts = 0
    /\ perfEnabled \in BOOLEAN
    /\ qualEnabled = TRUE
    /\ psutilAvail \in BOOLEAN
    /\ alert_thresholds = DefaultAlertThresholds
    /\ alerts = <<>>
    /\ lastCheck = [called |-> FALSE]
    /\ checks = 0
    /\ config_file = [kind |-> "missing"]
    /\ rules = DefaultRules
    /\ db_engine = "None"
    /\ redis_client = "None"
    /\ emptyApply = "series"
    /\ RunNotStarted
    /\ ScoreIdle
    /\ OtherIdle
    /\ DemoIdle

ThreadNext ==
    \/ StartMonitoring /\ UNCHANGED <<etlVars, scoreVars, monVars, concVars, demoVars>>
    \/ SetActive /\ UNCHANGED <<etlVars, scoreVars, monVars, concVars, demoVars>>
    \/ CleanupMonitoring /\ UNCHANGED <<etlVars, scoreVars, monVars, concVars, demoVars>>
    \/ JoinReturns /\ UNCHANGED <<etlVars, scoreVars, monVars, concVars, demoVars>>
    \/ \E i \in 1..Len(threads) :
          MonitorCheck(i) /\ UNCHANGED <<etlVars, scoreVars, monVars, concVars, demoVars>>
    \/ \E i \in 1..Len(threads) :
          MonitorCollect(i) /\ UNCHANGED <<etlVars, scoreVars, monVars, concVars, demoVars>>
    \/ \E i \in 1..Len(threads) :
          MonitorWake(i) /\ UNCHANGED <<etlVars, scoreVars, monVars, concVars, demoVars>>

SpecThread == ThreadInit /\ [][ThreadNext]_vars

----------------------------------------------------------------------------
(* Properties of run_etl_pipeline *)

Range(seq) == {seq[i] : i \in 1..Len(seq)}

Returned == pc \in {"returned", "cleaned"}

\* load_data was called and reported a failure
LoadFailed == Returned /\ "load_data" \in Range(stages) /\ ~load_success

\* some stage of the run failed
StageFailed == Returned /\ (exc # NoExc \/ LoadFailed)

\* C1: whichever stage fails, run_etl_pipeline returns an outcome with the
\* failure status that carries the error message of the failure and the
\* elapsed duration.
C1_FailureOutcomeCarriesMessage ==
    StageFailed =>
        /\ result.status = "failed"
        /\ "error" \in DOMAIN result
        /\ result.error = (IF exc # NoExc THEN exc.message ELSE loadError)
        /\ "duration_seconds" \in DOMAIN result
        /\ result.duration_seconds = clock - start_time

\* C2: when the load step fails, the outcome has the failure status, holds
\* the error message of the load failure in its error field and has a
\* duration greater than zero.
C2_LoadFailureKeepsMessage ==
    LoadFailed =>
        /\ result.status = "failed"
        /\ "error" \in DOMAIN result
        /\ result.error = loadError
        /\ result.duration_seconds > 0

\* every accepted row was scored and classified
AllAcceptedScored ==
    /\ scored = accepted
    /\ Len(transformed) = Len(accepted)
    /\ \A i \in 1..Len(accepted) :
        /\ transformed[i].row = accepted[i]
        /\ transformed[i].quality_score \in 0..100
        /\ transformed[i].quality_category \in {"Excellent", "Good", "Fair", "Poor"}

\* C3: a run ends with the success status if and only if extraction raised
\* nothing, every accepted row was scored and classified (the transformation
\* raised nothing) and load_data accepted the whole scored set, which is then
\* in the target table; every other run ends with the failure status.
C3_SuccessIffAllStagesSucceeded ==
    Returned =>
        /\ result.status \in {"success", "failed"}
        /\ result.status = "success" <=>
              /\ exc = NoExc
              /\ stages = <<"extract_data", "transform_data", "load_data">>
              /\ AllAcceptedScored
              /\ load_success
        /\ result.status = "success" => table = transformed

C3_Witness ==
    /\ Returned
    /\ result.status = "success"
    /\ Len(transformed) = 2
    /\ Len(input) = 2

Phase ==
    IF pc = "not_started" THEN "NOT_STARTED"
    ELSE IF ~Returned THEN "RUNNING"
    ELSE IF result.status = "success" THEN "COMPLETED"
    ELSE "FAILED"

\* C4: a run goes NOT_STARTED -> RUNNING -> COMPLETED or FAILED; the outcome
\* is built in the step that leaves RUNNING and at no other step; once
\* COMPLETED or FAILED is reached the phase stays, no stage runs, the target
\* table is not written and the outcome is not modified.
C4_RunStateMachine ==
    [][ /\ Phase = "NOT_STARTED" => Phase' \in {"NOT_STARTED", "RUNNING"}
        /\ Phase = "RUNNING" => Phase' \in {"RUNNING", "COMPLETED", "FAILED"}
        /\ Phase = "NOT_STARTED" => result = NoResult
        /\ Phase \in {"COMPLETED", "FAILED"} =>
              /\ Phase' = Phase
              /\ stages' = stages
              /\ table' = table
              /\ result' = result
        /\ result' # result =>
              /\ result = NoResult
              /\ Phase = "RUNNING"
              /\ Phase' \in {"COMPLETED", "FAILED"}
        /\ (Phase = "RUNNING" /\ Phase' \in {"COMPLETED", "FAILED"}) =>
              (result = NoResult /\ result' # NoResult) ]_vars

C4_Witness ==
    /\ pc = "cleaned"
    /\ Phase = "FAILED"
    /\ exc.stage = "transform_data"

\* the value of parameter p in the row lies outside the hard bound of p's rule
OutsideHardBound(rs, row, p) ==
    /\ p \in DOMAIN rs
    /\ p \in DOMAIN row
    /\ \/ "min" \in DOMAIN rs[p] /\ row[p] < rs[p]["min"]
       \/ "max" \in DOMAIN rs[p] /\ row[p] > rs[p]["max"]

LoadedRows == {table[i].row : i \in 1..Len(table)}

\* C5: a row whose value for some parameter lies outside the hard bound of
\* that parameter's rule (a minimum-only rule included) is never handed to
\* the scoring function and never appears in the target table.
C5_OutOfBoundRowsDropped ==
    \A i \in 1..Len(input) :
        (\E p \in Params : OutsideHardBound(rules, input[i], p)) =>
            /\ input[i] \notin Range(accepted)
            /\ input[i] \notin Range(scored)
            /\ input[i] \notin LoadedRows

C5_Witness ==
    /\ Returned
    /\ result.status = "success"
    /\ "diastase_activity" \in DOMAIN rules
    /\ input = <<[IdealRow EXCEPT !.diastase_activity = 70], IdealRow>>
    /\ LoadedRows = {IdealRow}

\* the validator accepts the row
Accepts(rs, row) == ApplyBusinessRules(rs, DropNa(<<row>>)) = <<row>>

\* C6: there are rows that the validator accepts and that the scorer
\* nevertheless scores below 100.
C6_AcceptedRowScoredBelow100 ==
    \E row \in ProbeRows \cup PipelineRows :
        Accepts(rules, row) /\ CalculateQualityScore(rules, row) < 100

\* extraction returned a table
ReadTable == "extract_data" \in Range(stages) /\ exc.stage # "extract_data"

\* extraction returned a table that has the four scored columns
FullTable == ReadTable /\ Params \subseteq data.columns

\* the source held no record: a file of zero bytes, or a table with the
\* four scored columns and no row
EmptyInput ==
    \/ exc.message = "No columns to parse from file"
    \/ FullTable /\ input = <<>>

\* C12: a run over an empty input ends COMPLETED (success status) with no
\* record read and no record accepted, provided the load destination
\* accepts what it is handed.
C12_EmptyInputCompletes ==
    (Returned /\ EmptyInput /\ ~LoadFailed) =>
        /\ result.status = "success"
        /\ Len(input) = 0
        /\ result.rows_processed = 0

\* the row has no value for one of the four scored fields
Lacks(row) == \E p \in Params : IsNa(row, p)

\* C13: a record that lacks a required scored field is rejected as a single
\* record: it is dropped before scoring, every other record of the batch is
\* still validated and scored, and the run does not end FAILED because of
\* the missing field (the transformation raises nothing).
C13_MissingFieldRejectsOneRecord ==
    (Returned /\ ReadTable /\ \E i \in 1..Len(input) : Lacks(input[i])) =>
        /\ exc.stage # "transform_data"
        /\ \A i \in 1..Len(input) :
              IF Lacks(input[i])
              THEN input[i] \notin Range(scored)
              ELSE Accepts(rules, input[i]) => input[i] \in Range(scored)

\* transform_data has just run on a table read with the four scored columns
\* (what it read and what it produced stay as they are in the rest of the run)
Validated ==
    /\ FullTable
    /\ "transform_data" \in Range(stages)
    /\ pc \in {"load", "except"}

\* C14 (as stated): a parameter with no rule is unconstrained: a record is
\* not rejected because of its value, or the absence of a value, for such a
\* parameter: a record that has a value within the bounds for every
\* parameter that has a rule is accepted.
C14_NoRuleNoRejection ==
    Validated =>
        \A i \in 1..Len(input) :
            (\A p \in DOMAIN rules :
                ~IsNa(input[i], p) /\ ~OutsideHardBound(rules, input[i], p))
            => input[i] \in Range(accepted)

\* C14 (amended): a record is accepted exactly when it has a value for each
\* of the four scored fields and its value for every parameter that has a
\* rule is within the bounds: the value for a parameter with no rule rejects
\* no record (its absence does); and the score of a scored record stays the
\* same whatever the value of a parameter with no rule.
C14_NoRuleValueUnconstrained ==
    Validated =>
        /\ \A i \in 1..Len(input) :
            input[i] \in Range(accepted) <=>
                /\ ~Lacks(input[i])
                /\ \A p \in DOMAIN rules : ~OutsideHardBound(rules, input[i], p)
        /\ \A i \in 1..Len(transformed) :
            \A p \in Params \ DOMAIN rules :
                \A v \in ProbeValues[p] :
                    CalculateQualityScore(rules, [transformed[i].row EXCEPT ![p] = v])
                        = transformed[i].quality_score

C14_Witness ==
    /\ Returned
    /\ result.status = "success"
    /\ DOMAIN rules = Params \ {"ph"}
    /\ input = <<[IdealRow EXCEPT !.ph = 29], Restrict(IdealRow, Params \ {"ph"})>>
    /\ LoadedRows = {[IdealRow EXCEPT !.ph = 29]}
    /\ table[1].quality_score = 100

\* C15 (as stated): a configuration file that is present but cannot be
\* loaded (not JSON, or a section missing) does not fall back to the
\* defaults: construction ends in a configuration error.
C15_MalformedConfigIsAnError ==
    config_file.kind \in {"malformed", "incomplete"} =>
        /\ pc = "config_error"
        /\ rules # DefaultRules

\* C15 (amended): a configuration file that is present but cannot be loaded
\* falls back to the built-in default rule set, as a missing file does: no
\* error is raised at load time and the processor runs with the defaults;
\* a file that loads gives its own rules.
C15_MalformedConfigFallsBackToDefaults ==
    /\ config_file.kind \in {"missing", "malformed", "incomplete"} =>
        /\ pc # "config_error"
        /\ rules = DefaultRules
    /\ config_file.kind = "valid" =>
        /\ pc # "config_error"
        /\ rules = config_file.business_rules

C15_Witness ==
    /\ config_file.kind = "malformed"
    /\ Returned
    /\ result.status = "success"
    /\ rules = DefaultRules
    /\ input = <<[IdealRow EXCEPT !.moisture = 205]>>
    /\ table = <<>>

RejectedRecords ==
    {i \in 1..Len(input) :
        Lacks(input[i]) \/ \E p \in Params : OutsideHardBound(rules, input[i], p)}

C20_RulesReadOnly ==
    rules = LoadConfig(config_file).business_rules

C20_Witness ==
    /\ pc = "cleaned"
    /\ result.status = "success"
    /\ config_file.kind = "valid"
    /\ DOMAIN rules = {"moisture"}
    /\ Len(table) = 2

StageOrder == <<"extract_data", "transform_data", "load_data">>

IsPrefix(s, t) ==
    /\ Len(s) <= Len(t)
    /\ \A i \in 1..Len(s) : s[i] = t[i]

\* the stage methods invoked so far are the first ones of extract, transform
\* (validate, score, classify), load, each once; after a stage raised none
\* was invoked; what left transform_data was validated, then scored, then
\* classified from its score
StagesInOrder ==
    /\ IsPrefix(stages, StageOrder)
    /\ exc # NoExc =>
        /\ stages # <<>>
        /\ stages[Len(stages)] = exc.stage
        /\ "load_data" \notin Range(stages)
    /\ pc = "load" =>
        /\ accepted = ApplyBusinessRules(rules, DropNa(input))
        /\ scored = accepted
        /\ \A i \in 1..Len(transformed) :
            /\ transformed[i].row = scored[i]
            /\ transformed[i].quality_score = CalculateQualityScore(rules, scored[i])
            /\ transformed[i].quality_category =
                  CategorizeQuality(transformed[i].quality_score)

\* C24: within one run the stages are executed in the order extract,
\* validate, score, classify, load, each at most once; a stage is invoked
\* only when every earlier stage finished without error, load is never
\* invoked after a failed extraction or transformation, and no stage is
\* invoked again after a failure (no retry).
C24_StagesInOrderNoRetry ==
    /\ []StagesInOrder
    /\ [][stages' # stages =>
            /\ exc = NoExc
            /\ Len(stages') = Len(stages) + 1
            /\ ~(\E i \in 1..Len(stages) : stages[i] = stages'[Len(stages')])]_vars

C24_Witness ==
    /\ Returned
    /\ result.status = "failed"
    /\ exc.stage = "extract_data"
    /\ stages = <<"extract_data">>
    /\ table = <<>>

\* C26: a run that returns an outcome with the failed status has written no
\* record to the target table, wherever the load step failed (no database,
\* the database write raised, the cache write raised after the database
\* write).
C26_FailedRunWroteNothing ==
    (Returned /\ result.status = "failed") => table = <<>>

----------------------------------------------------------------------------
(* Properties of scoring and classification *)

\* C7: the quality score of a row with numbers for all scored parameters
\* lies in [0,100], in both scoring functions (each is a function of the row
\* and the rules alone).
C7_ScoreWithinRange ==
    call.method \in {"etl.score_row", "unified.score_row"} =>
        /\ call.ret.quality_score >= 0
        /\ call.ret.quality_score <= 100

C7_Witness ==
    /\ call.method = "etl.score_row"
    /\ rules = DefaultRules
    /\ call.ret.quality_score = 40

Moisture22Row == [IdealRow EXCEPT !.moisture = 220]

\* C8 as claimed: with the moisture rule [15.0, 20.0], the row with moisture
\* 22.0 and the other parameters ideal gets the moisture penalty 5, the score
\* 95, the category "Excellent" and the compliance "Compliant".
C8_Moisture22Scores95 ==
    /\ (call.method = "etl.score_row" /\ call.arg = Moisture22Row
            /\ "moisture" \in DOMAIN rules) =>
        /\ MoisturePenalty(rules, call.arg) = 5
        /\ call.ret.quality_score = 95
        /\ call.ret.quality_category = "Excellent"
    /\ (call.method = "unified.score_row" /\ call.arg = Moisture22Row) =>
        /\ UnifiedMoisturePenalty(call.arg) = 5
        /\ call.ret.quality_score = 95
        /\ call.ret.quality_category = "Excellent"
        /\ call.ret.compliance_status = "Compliant"

\* C8 as amended: that row gets the moisture penalty 15, the score 85 and the
\* category "Good" from IndustrialETLProcessor (2.0 beyond the maximum is
\* outside the band of 1.0), and the penalty 20, the score 80, the category
\* "Good" and the compliance "Compliant" from UnifiedPowerBIGenerator (4.5
\* from the target 17.5 is beyond its last tier of 3.0).
C8_Moisture22Scores85 ==
    /\ (call.method = "etl.score_row" /\ call.arg = Moisture22Row
            /\ "moisture" \in DOMAIN rules) =>
        /\ MoisturePenalty(rules, call.arg) = 15
        /\ call.ret.quality_score = 85
        /\ call.ret.quality_category = "Good"
    /\ (call.method = "unified.score_row" /\ call.arg = Moisture22Row) =>
        /\ UnifiedMoisturePenalty(call.arg) = 20
        /\ call.ret.quality_score = 80
        /\ call.ret.quality_category = "Good"
        /\ call.ret.compliance_status = "Compliant"

C8_Witness ==
    /\ call.method = "etl.score_row"
    /\ call.arg = Moisture22Row
    /\ rules = DefaultRules

\* the tiers of each mapping with their floors; the lowest tier has no floor
\* in the source and takes every score below the others
EtlCategoryFloors == [Excellent |-> 90, Good |-> 80, Fair |-> 70, Poor |-> 0]
UnifiedCategoryFloors ==
    [Premium |-> 95, Excellent |-> 90, Good |-> 80, Fair |-> 70, Poor |-> 0]
ComplianceFloors ==
    [x \in {"Compliant", "Warning", "Non-Compliant"} |->
        IF x = "Compliant" THEN 80 ELSE IF x = "Warning" THEN 70 ELSE 0]

\* tier is the one tier of the mapping that the score belongs to when every
\* tier takes the scores from its floor (included) up to the next floor
InTier(floors, tier, score) ==
    /\ tier \in DOMAIN floors
    /\ floors[tier] <= score
    /\ \A other \in DOMAIN floors : floors[other] <= score => floors[other] <= floors[tier]

\* C9: every score in [0,100] is mapped to one category and one compliance
\* value of the mapping's tiers, the tier whose floor is the highest floor not
\* above the score: a score equal to a threshold belongs to the tier above it.
C9_ClassificationTotalInclusive ==
    /\ call.method = "unified.categorize" =>
            InTier(UnifiedCategoryFloors, call.ret, call.arg)
    /\ call.method = "unified.compliance" =>
            InTier(ComplianceFloors, call.ret, call.arg)
    /\ call.method = "etl.categorize" =>
            InTier(EtlCategoryFloors, call.ret, call.arg)

C9_Witness ==
    /\ call.method = "unified.categorize"
    /\ call.arg = 90
    /\ call.ret = "Excellent"

\* the score the scoring method of the call gives a row
ScoreBy(method, row) ==
    IF method = "etl.score_row"
    THEN CalculateQualityScore(rules, row)
    ELSE UnifiedCalculateQualityScore(row)

\* the points the method takes from a row whose only non-ideal value is the
\* row's value of p
LossAlone(method, row, p) ==
    100 - ScoreBy(method, [IdealRow EXCEPT ![p] = row[p]])

\* C21: the score of a row is 100 minus the sum of one penalty per
\* parameter, floored at 0, the penalty of a parameter being what the row's
\* value of that parameter costs on its own (with every other value ideal):
\* no value changes the penalty of another parameter; in the ETL scorer a
\* parameter without a rule costs nothing.
C21_PenaltiesAdditiveIndependent ==
    call.method \in {"etl.score_row", "unified.score_row"} =>
        /\ call.ret.quality_score =
              Max(0, 100 - LossAlone(call.method, call.arg, "moisture")
                         - LossAlone(call.method, call.arg, "ph")
                         - LossAlone(call.method, call.arg, "diastase_activity")
                         - LossAlone(call.method, call.arg, "h_m_f"))
        /\ call.method = "etl.score_row" =>
              \A p \in Params \ DOMAIN rules : LossAlone(call.method, call.arg, p) = 0

C21_Witness ==
    /\ call.method = "unified.score_row"
    /\ call.arg = [moisture |-> 205, ph |-> 25, diastase_activity |-> 100, h_m_f |-> 450]
    /\ call.ret.quality_score = 65

\* The tiers of the two scorers as tables: for each parameter the ascending
\* thresholds of the deviation (tenths) with their penalties, and the
\* penalty beyond the last threshold.  In the ETL scorer the deviation is the
\* distance of the value beyond the rule's range; in the unified scorer it
\* is the distance from the target (17.5, 5.0) or beyond the fixed bound
\* (8.0, 40.0).
EtlTiers ==
    [moisture |-> <<[upto |-> 0, penalty |-> 0], [upto |-> 10, penalty |-> 5]>>,
     ph |-> <<[upto |-> 0, penalty |-> 0], [upto |-> 5, penalty |-> 5]>>,
     diastase_activity |-> <<[upto |-> 0, penalty |-> 0], [upto |-> 20, penalty |-> 5]>>,
     h_m_f |-> <<[upto |-> 0, penalty |-> 0], [upto |-> 100, penalty |-> 5]>>]

EtlCatchAll ==
    [moisture |-> 15, ph |-> 15, diastase_activity |-> 15, h_m_f |-> 15]

UnifiedTiers ==
    [moisture |-> <<[upto |-> 10, penalty |-> 0], [upto |-> 20, penalty |-> 5],
                    [upto |-> 30, penalty |-> 10]>>,
     ph |-> <<[upto |-> 5, penalty |-> 0], [upto |-> 10, penalty |-> 5],
              [upto |-> 15, penalty |-> 10]>>,
     diastase_activity |-> <<[upto |-> 0, penalty |-> 0], [upto |-> 20, penalty |-> 5]>>,
     h_m_f |-> <<[upto |-> 0, penalty |-> 0], [upto |-> 100, penalty |-> 5]>>]

UnifiedCatchAll ==
    [moisture |-> 20, ph |-> 20, diastase_activity |-> 15, h_m_f |-> 15]

\* distance of the value beyond the range of the rule (0 within the range)
EtlDeviation(rule, v) ==
    Max(0, Max(IF "min" \in DOMAIN rule THEN rule["min"] - v ELSE 0,
               IF "max" \in DOMAIN rule THEN v - rule["max"] ELSE 0))

UnifiedDeviation(p, v) ==
    IF p = "moisture" THEN Abs(v - 175)
    ELSE IF p = "ph" THEN Abs(v - 50)
    ELSE IF p = "diastase_activity" THEN Max(0, 80 - v)
    ELSE Max(0, v - 400)

\* the penalty of the first tier, in ascending order, whose threshold the
\* deviation does not exceed; the catch-all penalty when it exceeds them all
FirstTierPenalty(tiers, catchAll, dev) ==
    LET hits == {i \in 1..Len(tiers) : dev <= tiers[i].upto}
    IN IF hits = {} THEN catchAll
       ELSE tiers[CHOOSE i \in hits : \A j \in hits : i <= j].penalty

\* the penalty the tier walk gives the row for parameter p under the method
TierPenalty(method, row, p) ==
    IF method = "etl.score_row"
    THEN IF p \in DOMAIN rules
         THEN FirstTierPenalty(EtlTiers[p], EtlCatchAll[p], EtlDeviation(rules[p], row[p]))
         ELSE 0
    ELSE FirstTierPenalty(UnifiedTiers[p], UnifiedCatchAll[p], UnifiedDeviation(p, row[p]))

\* C22: for each parameter the penalty is that of the first tier, in
\* ascending threshold order, whose threshold the deviation does not exceed,
\* the comparison being inclusive (a deviation equal to a threshold gets
\* that tier's penalty), and the catch-all penalty beyond every threshold:
\* the score of every row is 100 minus the penalties this walk gives.
C22_FirstTierInclusive ==
    call.method \in {"etl.score_row", "unified.score_row"} =>
        call.ret.quality_score =
            Max(0, 100 - TierPenalty(call.method, call.arg, "moisture")
                       - TierPenalty(call.method, call.arg, "ph")
                       - TierPenalty(call.method, call.arg, "diastase_activity")
                       - TierPenalty(call.method, call.arg, "h_m_f"))

C22_Witness ==
    /\ call.method = "etl.score_row"
    /\ rules = DefaultRules
    /\ call.arg = [IdealRow EXCEPT !.diastase_activity = 60]
    /\ call.ret.quality_score = 95

\* the deviation of a value of p under the scorer of the call: in the ETL
\* scorer a parameter without a rule has no range to deviate from
DeviationBy(method, p, v) ==
    IF method = "etl.score_row"
    THEN IF p \in DOMAIN rules THEN EtlDeviation(rules[p], v) ELSE 0
    ELSE UnifiedDeviation(p, v)

\* C29: the score is monotone in each parameter's deviation: with the other
\* values of the row fixed, replacing the value of one parameter by a value
\* that deviates at least as much from its acceptable range (ETL scorer) or
\* from its target (unified scorer) never gives a higher score.
C29_ScoreMonotoneInDeviation ==
    call.method \in {"etl.score_row", "unified.score_row"} =>
        \A p \in Params : \A v \in ProbeValues[p] :
            DeviationBy(call.method, p, v) >= DeviationBy(call.method, p, call.arg[p])
            => ScoreBy(call.method, [call.arg EXCEPT ![p] = v]) <= call.ret.quality_score

C29_Witness ==
    /\ call.method = "unified.score_row"
    /\ call.arg = [IdealRow EXCEPT !.moisture = 195]
    /\ call.ret.quality_score = 95
    /\ ScoreBy(call.method, [call.arg EXCEPT !.moisture = 205]) = 90

\* a category and a compliance status that go together
Consistent(category, compliance) ==
    /\ compliance = "Compliant" <=> category \in {"Premium", "Excellent", "Good"}
    /\ compliance = "Warning" <=> category = "Fair"
    /\ compliance = "Non-Compliant" <=> category = "Poor"

\* C30: in the unified generator the category and the compliance status of
\* one score are consistent: Compliant exactly with Premium, Excellent or
\* Good, Warning exactly with Fair, Non-Compliant exactly with Poor; for the
\* two columns of a generated row and for either method called on a score.
C30_CategoryComplianceConsistent ==
    /\ call.method = "unified.score_row" =>
            Consistent(call.ret.quality_category, call.ret.compliance_status)
    /\ call.method = "unified.categorize" =>
            Consistent(call.ret, GetComplianceStatus(call.arg))
    /\ call.method = "unified.compliance" =>
            Consistent(UnifiedCategorizeQuality(call.arg), call.ret)

C30_Witness ==
    /\ call.method = "unified.score_row"
    /\ call.ret.quality_score = 70
    /\ call.ret.quality_category = "Fair"
    /\ call.ret.compliance_status = "Warning"

\* C28: when the processor holds the built-in default rules,
\* PowerBIIntegration's sample scoring and categorisation give every row the
\* score and the category IndustrialETLProcessor gives it, and its
\* categorisation gives every score the processor's category.
C28_SampleScoringEqualsEtlDefaults ==
    /\ (call.method = "sample.score_row" /\ rules = DefaultRules) =>
            call.ret = ScoreRow(rules, call.arg)
    /\ call.method = "sample.categorize" =>
            call.ret = CategorizeQuality(call.arg)

C28_Witness ==
    /\ call.method = "sample.score_row"
    /\ rules = DefaultRules
    /\ call.arg = [moisture |-> 205, ph |-> 30, diastase_activity |-> 50, h_m_f |-> 450]
    /\ call.ret.quality_score = 70
    /\ call.ret.quality_category = "Fair"

----------------------------------------------------------------------------
(* Properties of the alert checks *)

AlertsFor(metric) ==
    {i \in 1..Len(lastCheck.returned) : lastCheck.returned[i].metric = metric}

\* C10: a check cycle returns no alert for a metric (CPU, memory) it read
\* equal to its threshold (80.0, 85.0), and exactly one alert for a metric it
\* read strictly above its threshold.
C10_AlertOnlyAboveThreshold ==
    lastCheck.called =>
        /\ lastCheck.cpu.state = "read" =>
            /\ lastCheck.cpu.value = 800 => Cardinality(AlertsFor("cpu")) = 0
            /\ lastCheck.cpu.value > 800 => Cardinality(AlertsFor("cpu")) = 1
        /\ lastCheck.mem.state = "read" =>
            /\ lastCheck.mem.value = 850 => Cardinality(AlertsFor("memory")) = 0
            /\ lastCheck.mem.value > 850 => Cardinality(AlertsFor("memory")) = 1

C10_Witness ==
    /\ lastCheck.called
    /\ lastCheck.cpu = Reading(800)
    /\ lastCheck.mem = Reading(851)
    /\ Len(lastCheck.returned) = 1

\* C11 (as stated): check_alerts keeps no state and has no side effect: after
\* any number of check cycles the state of the monitoring object is the one
\* it had before the first cycle, no alert has been accumulated in it.
C11_CheckAlertsLeavesStateUnchanged ==
    alerts = <<>>

\* The alerts a cycle raises for the metrics it read, told from the readings
\* alone
AlertsOfReadings(cpu, mem) ==
    (IF cpu.state = "read" /\ cpu.value > 800
     THEN <<Alert("cpu", cpu.value)>> ELSE <<>>)
    \o (IF mem.state = "read" /\ mem.value > 850
        THEN <<Alert("memory", mem.value)>> ELSE <<>>)

\* C11 (amended): each check cycle appends the alerts it returns to
\* self.alerts and changes nothing else of the monitoring object: the
\* configuration stays as it was, and the alerts returned depend only on the
\* metrics read in that cycle.
C11_CheckAlertsStoresWhatItReturns ==
    [][checks' # checks =>
        /\ alerts' = alerts \o lastCheck'.returned
        /\ lastCheck'.returned = AlertsOfReadings(lastCheck'.cpu, lastCheck'.mem)
        /\ UNCHANGED <<perfEnabled, qualEnabled, psutilAvail, alert_thresholds>>]_vars

C11_Witness ==
    /\ checks = 2
    /\ Len(lastCheck.returned) = 1
    /\ Len(alerts) = 3

\* C23: within one check cycle each alert check is evaluated independently
\* of the others: with the performance checks enabled, the memory alert is
\* returned whenever the memory is above its threshold, whether the CPU
\* check fired, did not fire or failed, and the CPU alert is returned
\* whenever the CPU is above its threshold, whatever the memory check does;
\* a metric that does not breach gives no event.
C23_AlertChecksIndependent ==
    (lastCheck.called /\ perfEnabled /\ psutilAvail) =>
        /\ Cardinality(AlertsFor("memory")) =
              (IF lastCheck.memLevel.state = "read" /\ lastCheck.memLevel.value > 850
               THEN 1 ELSE 0)
        /\ Cardinality(AlertsFor("cpu")) =
              (IF lastCheck.cpuLevel.state = "read" /\ lastCheck.cpuLevel.value > 800
               THEN 1 ELSE 0)

\* C19 (as stated): an alert fires in a check cycle when the metric read is
\* strictly greater than the threshold configured in the alert thresholds,
\* and only then: for the performance kind, a cycle that read the CPU
\* returns a CPU alert exactly when the reading (tenths of a percent) is
\* above alert_thresholds.performance_degradation (hundredths).
C19_AlertsUseConfiguredThresholds ==
    (lastCheck.called /\ lastCheck.cpu.state = "read") =>
        (Cardinality(AlertsFor("cpu")) = 1
            <=> lastCheck.cpu.value * 10 > alert_thresholds.performance_degradation)

----------------------------------------------------------------------------
(* Properties of two concurrent runs *)

\* what transform_data hands to load_data when it is given the rows alone
SoloTransformed(rs, rows) ==
    LET acc == ApplyBusinessRules(rs, DropNa(rows))
    IN [i \in 1..Len(acc) |-> ScoreRow(rs, acc[i])]

\* transform_data raises on the frame when it is given the frame alone
SoloTransformRaises(frame) ==
    \/ ~(Params \subseteq frame.columns)
    \/ ApplyBusinessRules(rules, DropNa(frame.rows)) = <<>> /\ emptyApply = "frame"

\* the local variables of the first call, as a record like otherRun
FirstRun ==
    [pc |-> pc, start_time |-> start_time, input |-> input, data |-> data,
     transformed |-> transformed, load_success |-> load_success,
     written |-> ("load_data" \in Range(stages) /\ db_engine # "None"
                    /\ loadError # "to_sql failed"),
     exc |-> exc, result |-> result]

\* the call is where a call made alone on the same source and with the same
\* answers of the database and the cache would be
AsAlone(r) ==
    /\ (r.pc \in {"load", "loaded"} \/ (r.pc = "returned" /\ r.exc = NoExc)) =>
        /\ ~SoloTransformRaises(r.data)
        /\ r.transformed = SoloTransformed(rules, r.input)
    /\ (r.pc \in {"except", "returned"} /\ r.exc.stage = "transform_data") =>
        SoloTransformRaises(r.data)
    /\ r.pc = "returned" =>
        IF r.exc # NoExc
        THEN /\ r.result.status = "failed"
             /\ r.result.error = r.exc.message
        ELSE /\ r.result.status = (IF r.load_success THEN "success" ELSE "failed")
             /\ r.result.rows_processed = Len(SoloTransformed(rules, r.input))

WrittenBy(r) == IF r.written THEN r.transformed ELSE <<>>

\* C17: two runs executed concurrently on one processor share nothing they
\* write but the load destination: under every interleaving of their
\* stages, the outcome of each run and the records it hands to the load
\* destination are those of the run executed alone, and the target table
\* holds the records of the one run followed by the records of the other.
C17_ConcurrentRunsAsAlone ==
    /\ AsAlone(FirstRun)
    /\ AsAlone(otherRun)
    /\ table \in {WrittenBy(FirstRun) \o WrittenBy(otherRun),
                   WrittenBy(otherRun) \o WrittenBy(FirstRun)}

C17_Witness ==
    /\ pc = "returned"
    /\ otherRun.pc = "returned"
    /\ start_time < otherRun.start_time
    /\ result.status = "success"
    /\ otherRun.result.status = "success"
    /\ input = <<IdealRow>>
    /\ otherRun.input = <<[IdealRow EXCEPT !.ph = 29], [IdealRow EXCEPT !.moisture = 150]>>
    /\ table = otherRun.transformed \o transformed
    /\ Len(table) = 3

----------------------------------------------------------------------------
(* Properties of run_demo *)

\* C18: in run_demo, after run_etl_pipeline returned a failed outcome, the
\* failure is recorded in the pipeline results and the steps that follow
\* (template generation, report generation, saving the results) are still
\* executed, in that order, before the cleanup; run_demo then returns
\* without raising.
C18_FailedEtlRecordedDemoGoesOn ==
    (pc \in {"returned", "cleaned"} /\ result.status = "failed"
        /\ demoPc \in {"done", "raised"}) =>
        /\ demoPc = "done"
        /\ DOMAIN pipeline_results = {"etl"}
        /\ pipeline_results["etl"] = result
        /\ Len(demoLog) = 7
        /\ demoLog[3] = "run_etl_pipeline"
        /\ demoLog[4] \in {"template", "template_failed"}
        /\ demoLog[5] \in {"reports", "reports_failed"}
        /\ demoLog[6] \in {"save", "save_failed"}
        /\ demoLog[7] = "cleanup"

C18_Witness ==
    /\ demoPc = "done"
    /\ pc = "cleaned"
    /\ db_engine = "None"
    /\ pipeline_results["etl"].status = "failed"
    /\ demoLog = <<"sample_data", "start_monitoring", "run_etl_pipeline",
                   "template", "reports", "save", "cleanup">>

----------------------------------------------------------------------------
(* Properties of start_monitoring, cleanup and the monitor threads *)

\* C25: once start_monitoring has returned without error with the
\* collection of performance metrics on (monitoring_active is True and the
\* caller is out of the call), and until cleanup clears monitoring_active,
\* the monitor thread exists and has not left its loop, under every
\* interleaving of the caller and the monitor thread.
C25_MonitorRunsUntilCleanup ==
    (mainPc = "idle" /\ monitoring_active /\ perfEnabled /\ psutilAvail) =>
        /\ threads # <<>>
        /\ threads[Len(threads)].pc # "exited"

\* C27: for every sequence of start_monitoring and cleanup calls, at most
\* one monitor thread is in its loop at any time (the part of the claim that
\* a finite run can break; the claim also says that a thread leaves its
\* loop once cleanup has cleared monitoring_active).
C27_AtMostOneMonitorThread ==
    Cardinality(Running) <= 1

====
